---- MODULE Spec2Model ----
(***************************************************************************)
(* Interaction payload decode of src/model/interactions.rs:                *)
(* the guild_id normalization pass, the field-by-field extraction of       *)
(* Interaction and ApplicationCommandInteractionData, the resolved store   *)
(* and the resolution of options against it.                               *)
(*                                                                         *)
(* A JSON value is a record tagged by t: null, num (n), str (s), bool (b), *)
(* obj (m: a function from keys to values), arr (a: a sequence).  A string *)
(* (and so a key) is a sequence of atoms: the digits and "+" are single    *)
(* characters, any other atom stands for a run of non-digit characters.    *)
(* An Option is a sequence of length at most one; a Result is a record     *)
(* with ok, and v (the value) or err (the message).                        *)
(***************************************************************************)
EXTENDS Integers, Sequences, FiniteSets, TLC

\* ------------------------------------------------------------------ bounds

\* Identifiers of resolved entries and option values range over 1..MaxId.
MaxId == 2

\* Options are nested in at most MaxDepth containers.
MaxDepth == 2

\* Discriminants of the enums range over 0..MaxDiscriminant.
MaxDiscriminant == 9

\* ------------------------------------------------------------- JSON values

Null == [t |-> "null"]
JNum(n) == [t |-> "num", n |-> n]
JStr(s) == [t |-> "str", s |-> s]
JBool(b) == [t |-> "bool", b |-> b]
JObj(m) == [t |-> "obj", m |-> m]
JArr(a) == [t |-> "arr", a |-> a]

\* A key or a string made of one atom.
K(name) == <<name>>

EmptyMap == [k \in {} |-> Null]

None == <<>>
Some(x) == <<x>>
IsSome(o) == Len(o) = 1

Ok(x) == [ok |-> TRUE, v |-> x]
Err(e) == [ok |-> FALSE, err |-> e]

\* Value::as_object / as_object_mut
IsObject(v) == v.t = "obj"

\* Map::contains_key
ContainsKey(m, k) == k \in DOMAIN m

\* Map::insert: an existing entry of the key is overwritten.
MapInsert(m, k, x) == [kk \in (DOMAIN m) \cup {k} |-> IF kk = k THEN x ELSE m[kk]]

\* Map::remove
MapRemove(m, k) == [kk \in (DOMAIN m) \ {k} |-> m[kk]]

\* Value::get / Value::get_mut with a string index: None unless the value is
\* an object holding the key.
ValueGet(v, k) == IF IsObject(v) /\ k \in DOMAIN v.m THEN Some(v.m[k]) ELSE None

\* -------------------------------------------------- str::parse::<u64>, to_string

Digits == <<"0", "1", "2", "3", "4", "5", "6", "7", "8", "9">>

IsDigit(c) == \E i \in 1..10 : Digits[i] = c

DigitVal(c) == (CHOOSE i \in 1..10 : Digits[i] = c) - 1

RECURSIVE DigitsValue(_)
DigitsValue(s) ==
    IF Len(s) = 0 THEN 0
    ELSE 10 * DigitsValue(SubSeq(s, 1, Len(s) - 1)) + DigitVal(s[Len(s)])

\* u64::from_str: an optional leading "+", then at least one digit and only
\* digits.  (The strings of the model are far shorter than the 20 digits at
\* which the value can exceed u64::MAX, the remaining way to fail.)
ParseU64(s) ==
    LET d == IF Len(s) > 0 /\ s[1] = "+" THEN Tail(s) ELSE s
    IN  IF Len(d) > 0 /\ \A i \in 1..Len(d) : IsDigit(d[i])
        THEN Some(DigitsValue(d))
        ELSE None

\* u64::to_string: the decimal digits, no sign, no leading zero.
RECURSIVE U64ToString(_)
U64ToString(n) ==
    IF n < 10 THEN <<Digits[n + 1]>>
    ELSE Append(U64ToString(n \div 10), Digits[(n % 10) + 1])

\* Value::as_str
AsStr(v) == IF v.t = "str" THEN Some(v.s) ELSE None

\* ----------------------------------------------------- the normalization pass

\* TopGuildId taking a JSON number for a guild id as well.
TopGuildIdAnyForm(map) ==
    IF ContainsKey(map, K("guild_id"))
    THEN LET v == map[K("guild_id")]
         IN  CASE v.t = "str" -> ParseU64(v.s)
               [] v.t = "num" -> Some(v.n)
               [] OTHER -> None
    ELSE None

\* map.get("guild_id").and_then(|x| x.as_str()).and_then(|x| x.parse::<u64>().ok())
TopGuildId(map) ==
    IF ContainsKey(map, K("guild_id"))
    THEN LET s == AsStr(map[K("guild_id")])
         IN  IF IsSome(s) THEN ParseU64(s[1]) ELSE None
    ELSE None

\* ScopeMember replacing the member object by one that holds the guild_id alone.
ScopeMemberOnlyGuild(map, g) ==
    IF ContainsKey(map, K("member")) /\ IsObject(map[K("member")])
    THEN MapInsert(map, K("member"), JObj(K("guild_id") :> JNum(g)))
    ELSE map

\* member.insert("guild_id", Value::Number(Number::from(guild_id))), when the
\* member key holds an object.
ScopeMember(map, g) ==
    IF ContainsKey(map, K("member")) /\ IsObject(map[K("member")])
    THEN MapInsert(map, K("member"),
                   JObj(MapInsert(map[K("member")].m, K("guild_id"), JNum(g))))
    ELSE map

\* value.as_object_mut().unwrap() of the loop over values_mut(): the unwrap
\* panics on an entry that is not an object.
EntryUnwrapPanics(values) == \E k \in DOMAIN values : ~IsObject(values[k])

\* The loop over values_mut(): every entry gets guild_id set to
\* Value::String(guild_id.to_string()).
ScopeEntries(values, g) ==
    [k \in DOMAIN values |->
        IF IsObject(values[k])
        THEN JObj(MapInsert(values[k].m, K("guild_id"), JStr(U64ToString(g))))
        ELSE values[k]]

\* resolved.get_mut(section) then as_object_mut(): the entries of the section,
\* when resolved is an object holding the section and the section is an object.
SectionEntries(resolved, section) ==
    LET s == ValueGet(resolved, section)
    IN  IF IsSome(s) /\ IsObject(s[1]) THEN Some(s[1].m) ELSE None

ScopeSection(resolved, section, g) ==
    LET e == SectionEntries(resolved, section)
    IN  IF IsSome(e)
        THEN JObj(MapInsert(resolved.m, section, JObj(ScopeEntries(e[1], g))))
        ELSE resolved

\* map.get_mut("data") then data.get_mut("resolved")
DataResolvedOf(map) ==
    IF ContainsKey(map, K("data")) THEN ValueGet(map[K("data")], K("resolved")) ELSE None

\* ScopeData with the channels block left out.
ScopeDataRolesOnly(map, g) ==
    LET r == DataResolvedOf(map)
    IN  IF IsSome(r)
        THEN MapInsert(map, K("data"),
                       JObj(MapInsert(map[K("data")].m, K("resolved"),
                                      ScopeSection(r[1], K("roles"), g))))
        ELSE map

ScopeData(map, g) ==
    LET r == DataResolvedOf(map)
    IN  IF IsSome(r)
        THEN LET r2 == ScopeSection(ScopeSection(r[1], K("roles"), g), K("channels"), g)
             IN  MapInsert(map, K("data"),
                           JObj(MapInsert(map[K("data")].m, K("resolved"), r2)))
        ELSE map

\* Whether the pass panics on the payload: an entry of roles or of channels that
\* is not an object, reached only with a guild id.
NormalizationPanics(map) ==
    /\ IsSome(TopGuildId(map))
    /\ IsSome(DataResolvedOf(map))
    /\ \E section \in {K("roles"), K("channels")} :
          LET e == SectionEntries(DataResolvedOf(map)[1], section)
          IN  IsSome(e) /\ EntryUnwrapPanics(e[1])

\* The payload after the pass (when it does not panic).
NormalizationPass(map) ==
    LET id == TopGuildId(map)
    IN  IF IsSome(id) THEN ScopeData(ScopeMember(map, id[1]), id[1]) ELSE map

\* ------------------------------------------------------- enum discriminants

\* InteractionType with the two numbers exchanged.
InteractionTypeNumberSwapped == [Ping |-> 2, ApplicationCommand |-> 1]

\* enum InteractionType: the variants enum_number! lists, with their numbers.
InteractionTypeNumber == [Ping |-> 1, ApplicationCommand |-> 2]

\* ApplicationCommandOptionType with the numbers of User and Role exchanged.
OptionTypeNumberUserRole ==
    [SubCommand |-> 1, SubCommandGroup |-> 2, String |-> 3, Integer |-> 4,
     Boolean |-> 5, User |-> 8, Channel |-> 7, Role |-> 6]

\* enum ApplicationCommandOptionType
OptionTypeNumber ==
    [SubCommand |-> 1, SubCommandGroup |-> 2, String |-> 3, Integer |-> 4,
     Boolean |-> 5, User |-> 6, Channel |-> 7, Role |-> 8]

\* enum ApplicationCommandPermissionType
PermissionTypeNumber == [Role |-> 1, User |-> 2]

\* enum_number!: the listed variant whose number the integer is, and Unknown for
\* every other integer; a value that is not an integer is a type mismatch.
EnumFromNumber(n, numbers) ==
    IF \E x \in DOMAIN numbers : numbers[x] = n
    THEN CHOOSE x \in DOMAIN numbers : numbers[x] = n
    ELSE "Unknown"

DecodeEnum(v, numbers) ==
    IF v.t = "num"
    THEN Ok(EnumFromNumber(v.n, numbers))
    ELSE Err(<<"TypeMismatch", "integer">>)

DecodeInteractionType(v) == DecodeEnum(v, InteractionTypeNumber)

DecodeOptionType(v) == DecodeEnum(v, OptionTypeNumber)

DecodePermissionType(v) == DecodeEnum(v, PermissionTypeNumber)

\* ------------------------------------------------------ typed leaf decoders

\* An identifier: a string that parses as u64, or a number.
DecodeSnowflake(v) ==
    CASE v.t = "str" ->
            IF IsSome(ParseU64(v.s)) THEN Ok(ParseU64(v.s)[1])
            ELSE Err(<<"TypeMismatch", "snowflake">>)
      [] v.t = "num" /\ v.n >= 0 -> Ok(v.n)
      [] OTHER -> Err(<<"TypeMismatch", "snowflake">>)

\* String::deserialize
DecodeString(v) ==
    IF v.t = "str" THEN Ok(v.s) ELSE Err(<<"TypeMismatch", "string">>)

\* u8::deserialize
DecodeU8(v) ==
    IF v.t = "num" /\ v.n >= 0 /\ v.n <= 255 THEN Ok(v.n)
    ELSE Err(<<"TypeMismatch", "u8">>)

\* JsonMap::deserialize: the value must be an object.
DecodeJsonMap(v) ==
    IF IsObject(v) THEN Ok(v.m) ELSE Err(<<"TypeMismatch", "map">>)

\* A field of an object handed to a typed decoder; r is the decode of the
\* field's value, taken when the field is there.
FieldResult(v, k, r) ==
    IF ~IsObject(v) THEN Err(<<"TypeMismatch", "map">>)
    ELSE IF ~ContainsKey(v.m, k) THEN Err(<<"MissingField">> \o k)
    ELSE r

\* User: an object with an id.
DecodeUser(v) ==
    LET id == FieldResult(v, K("id"), DecodeSnowflake(v.m[K("id")]))
    IN  IF id.ok THEN Ok([id |-> id.v]) ELSE id

\* Member: an object with a user and the guild_id the normalization pass sets.
DecodeMember(v) ==
    LET user == FieldResult(v, K("user"), DecodeUser(v.m[K("user")]))
        guild == FieldResult(v, K("guild_id"), DecodeSnowflake(v.m[K("guild_id")]))
    IN  IF ~user.ok THEN user
        ELSE IF ~guild.ok THEN guild
        ELSE Ok([user |-> user.v, guild_id |-> guild.v])

\* PartialMember of the resolved store: an object with a user.
DecodePartialMember(v) ==
    LET user == FieldResult(v, K("user"), DecodeUser(v.m[K("user")]))
    IN  IF user.ok THEN Ok([user |-> user.v]) ELSE user

\* Role and PartialChannel of the resolved store: an object with an id; scoped
\* to a guild when it carries a guild_id.
DecodeScoped(v) ==
    LET id == FieldResult(v, K("id"), DecodeSnowflake(v.m[K("id")]))
        guild == FieldResult(v, K("guild_id"), DecodeSnowflake(v.m[K("guild_id")]))
    IN  IF ~id.ok THEN id
        ELSE IF ContainsKey(v.m, K("guild_id"))
             THEN IF guild.ok THEN Ok([id |-> id.v, guild_id |-> Some(guild.v)]) ELSE guild
             ELSE Ok([id |-> id.v, guild_id |-> None])

DecodeRole(v) == DecodeScoped(v)

DecodePartialChannel(v) == DecodeScoped(v)

\* ------------------------------------------------------ the resolved store

\* The typed decoder of the entries of one mapping of the store.
DecodeEntry(section, v) ==
    CASE section = "members" -> DecodePartialMember(v)
      [] section = "users" -> DecodeUser(v)
      [] section = "roles" -> DecodeRole(v)
      [] section = "channels" -> DecodePartialChannel(v)

\* A mapping from identifier string to typed object: every key an
\* identifier, every entry decoded; the first fault fails the mapping.
DecodeIdMap(v, section) ==
    IF ~IsObject(v) THEN Err(<<"TypeMismatch", "map">>)
    ELSE IF \E k \in DOMAIN v.m : ~IsSome(ParseU64(k))
         THEN Err(<<"TypeMismatch", "snowflake">>)
    ELSE IF \E k \in DOMAIN v.m : ~DecodeEntry(section, v.m[k]).ok
         THEN DecodeEntry(section,
                          v.m[CHOOSE k \in DOMAIN v.m : ~DecodeEntry(section, v.m[k]).ok])
    ELSE Ok([id \in {ParseU64(k)[1] : k \in DOMAIN v.m} |->
                DecodeEntry(section, v.m[CHOOSE k \in DOMAIN v.m : ParseU64(k)[1] = id]).v])

deserialize_partial_members_map(v) == DecodeIdMap(v, "members")

deserialize_users(v) == DecodeIdMap(v, "users")

deserialize_roles_map(v) == DecodeIdMap(v, "roles")

deserialize_channels_map(v) == DecodeIdMap(v, "channels")

EmptyIdMap == [id \in {} |-> Null]

\* ApplicationCommandInteractionDataResolved::default()
DefaultResolved ==
    [users |-> EmptyIdMap, members |-> EmptyIdMap, roles |-> EmptyIdMap,
     channels |-> EmptyIdMap]

\* ResolvedSection testing the presence of "users" for every mapping.
ResolvedSectionUsersKey(map, key, r) ==
    IF ContainsKey(map, K("users"))
    THEN IF ContainsKey(map, key) THEN r ELSE Err(<<"expected value">>)
    ELSE Ok(EmptyIdMap)

\* One mapping of the store: r, the decode of the key's value, when the key is
\* present, empty otherwise.
ResolvedSection(map, key, r) ==
    IF ContainsKey(map, key) THEN r ELSE Ok(EmptyIdMap)

\* ApplicationCommandInteractionDataResolved::deserialize: members, users,
\* roles, channels in this order, the first error returned.
DecodeResolved(v) ==
    LET map == DecodeJsonMap(v)
    IN  IF ~map.ok THEN map
        ELSE LET members == ResolvedSection(map.v, K("members"),
                                           deserialize_partial_members_map(map.v[K("members")]))
                 users == ResolvedSection(map.v, K("users"),
                                           deserialize_users(map.v[K("users")]))
                 roles == ResolvedSection(map.v, K("roles"),
                                           deserialize_roles_map(map.v[K("roles")]))
                 channels == ResolvedSection(map.v, K("channels"),
                                           deserialize_channels_map(map.v[K("channels")]))
             IN  IF ~members.ok THEN members
                 ELSE IF ~users.ok THEN users
                 ELSE IF ~roles.ok THEN roles
                 ELSE IF ~channels.ok THEN channels
                 ELSE Ok([users |-> users.v, members |-> members.v,
                          roles |-> roles.v, channels |-> channels.v])

\* ------------------------------------------------------------- the options

\* Value::deserialize: any JSON value is kept as it is.
DecodeValue(v) == Ok(v)

\* In the three operators below r is the decode of the key's value, taken only
\* when the key is present.

\* A required key: the given message when it is absent, else the decoder's
\* result (map_err(DeError::custom) keeps the message).
RequiredField(map, key, missing, r) ==
    IF ContainsKey(map, key) THEN r ELSE Err(<<missing>>)

\* An optional key: decoded when present (a fault fails), else the default.
OptionalField(map, key, r, default) ==
    IF ContainsKey(map, key) THEN r ELSE Ok(default)

\* PresentField taking a null value for an absent key.
PresentFieldNullAsAbsent(map, key, r) ==
    IF ContainsKey(map, key) /\ map[key].t # "null"
    THEN IF r.ok THEN Ok(Some(r.v)) ELSE r
    ELSE Ok(None)

\* A key decoded into Some(..) when present, None otherwise.
PresentField(map, key, r) ==
    IF ContainsKey(map, key)
    THEN IF r.ok THEN Ok(Some(r.v)) ELSE r
    ELSE Ok(None)

RECURSIVE deserialize_options(_)
\* DecodeOption with the nested options left out.
DecodeOptionLeafOnly(v) ==
    LET map == DecodeJsonMap(v)
    IN  IF ~map.ok THEN map
        ELSE LET name == RequiredField(map.v, K("name"), "expected value",
                                       DecodeString(map.v[K("name")]))
                 value == PresentField(map.v, K("value"), DecodeValue(map.v[K("value")]))
                 kind == RequiredField(map.v, K("type"), "expected type",
                                       DecodeOptionType(map.v[K("type")]))
             IN  IF ~name.ok THEN name
                 ELSE IF ~value.ok THEN value
                 ELSE IF ~kind.ok THEN kind
                 ELSE Ok([name |-> name.v, value |-> value.v, kind |-> kind.v,
                          options |-> <<>>, resolved |-> None])

\* ApplicationCommandInteractionDataOption::deserialize: name, value, type,
\* options in this order; resolved is left None.
DecodeOption(v) ==
    LET map == DecodeJsonMap(v)
    IN  IF ~map.ok THEN map
        ELSE LET name == RequiredField(map.v, K("name"), "expected value",
                                       DecodeString(map.v[K("name")]))
                 value == PresentField(map.v, K("value"), DecodeValue(map.v[K("value")]))
                 kind == RequiredField(map.v, K("type"), "expected type",
                                       DecodeOptionType(map.v[K("type")]))
                 options == OptionalField(map.v, K("options"),
                                          deserialize_options(map.v[K("options")]), <<>>)
             IN  IF ~name.ok THEN name
                 ELSE IF ~value.ok THEN value
                 ELSE IF ~kind.ok THEN kind
                 ELSE IF ~options.ok THEN options
                 ELSE Ok([name |-> name.v, value |-> value.v, kind |-> kind.v,
                          options |-> options.v, resolved |-> None])

\* A sequence of options: an array, each element decoded in order, the first
\* fault returned.
deserialize_options(v) ==
    IF v.t # "arr" THEN Err(<<"TypeMismatch", "sequence">>)
    ELSE IF \E i \in 1..Len(v.a) : ~DecodeOption(v.a[i]).ok
         THEN DecodeOption(v.a[CHOOSE i \in 1..Len(v.a) :
                                  /\ ~DecodeOption(v.a[i]).ok
                                  /\ \A j \in 1..(i - 1) : DecodeOption(v.a[j]).ok])
    ELSE Ok([i \in 1..Len(v.a) |-> DecodeOption(v.a[i]).v])

\* An identifier-keyed lookup of the store: the raw value must be an identifier
\* string, and the identifier a key of the mapping.
ResolveReference(raw, mapping, refKind) ==
    IF raw.t # "str" \/ ~IsSome(ParseU64(raw.s))
    THEN Err(<<"TypeMismatch", "snowflake">>)
    ELSE LET id == ParseU64(raw.s)[1]
         IN  IF id \in DOMAIN mapping THEN Ok(mapping[id])
             ELSE Err(<<"UnresolvedReference", refKind, id>>)

\* OptionResolver: the typed value of one raw value, by the declared kind.
ResolveValue(kind, raw, resolved) ==
    CASE kind = "String" ->
            IF raw.t = "str" THEN Ok(Some([tag |-> "String", s |-> raw.s]))
            ELSE Err(<<"TypeMismatch", "string">>)
      [] kind = "Integer" ->
            IF raw.t = "num" THEN Ok(Some([tag |-> "Integer", i |-> raw.n]))
            ELSE Err(<<"TypeMismatch", "integer">>)
      [] kind = "Boolean" ->
            IF raw.t = "bool" THEN Ok(Some([tag |-> "Boolean", b |-> raw.b]))
            ELSE Err(<<"TypeMismatch", "boolean">>)
      [] kind = "User" ->
            LET user == ResolveReference(raw, resolved.users, "User")
            IN  IF ~user.ok THEN user
                ELSE LET id == ParseU64(raw.s)[1]
                     IN  Ok(Some([tag |-> "User", user |-> user.v,
                                  member |-> IF id \in DOMAIN resolved.members
                                             THEN Some(resolved.members[id])
                                             ELSE None]))
      [] kind = "Channel" ->
            LET channel == ResolveReference(raw, resolved.channels, "Channel")
            IN  IF ~channel.ok THEN channel
                ELSE Ok(Some([tag |-> "Channel", channel |-> channel.v]))
      [] kind = "Role" ->
            LET role == ResolveReference(raw, resolved.roles, "Role")
            IN  IF ~role.ok THEN role
                ELSE Ok(Some([tag |-> "Role", role |-> role.v]))
      [] OTHER -> Ok(None)

RECURSIVE ResolveOptions(_, _)
\* One option resolved against the store, its nested options recursively.
ResolveOption(option, resolved) ==
    LET value == IF IsSome(option.value)
                 THEN ResolveValue(option.kind, option.value[1], resolved)
                 ELSE Ok(None)
        nested == ResolveOptions(option.options, resolved)
    IN  IF ~value.ok THEN value
        ELSE IF ~nested.ok THEN nested
        ELSE Ok([option EXCEPT !.resolved = value.v, !.options = nested.v])

ResolveOptions(options, resolved) ==
    IF \E i \in 1..Len(options) : ~ResolveOption(options[i], resolved).ok
    THEN ResolveOption(options[CHOOSE i \in 1..Len(options) :
                                  /\ ~ResolveOption(options[i], resolved).ok
                                  /\ \A j \in 1..(i - 1) :
                                        ResolveOption(options[j], resolved).ok],
                       resolved)
    ELSE Ok([i \in 1..Len(options) |-> ResolveOption(options[i], resolved).v])

\* The options of the data object: decoded, then each resolved against the
\* store built before.
deserialize_options_with_resolved(v, resolved) ==
    LET options == deserialize_options(v)
    IN  IF ~options.ok THEN options ELSE ResolveOptions(options.v, resolved)

\* ------------------------------------------------------- the decode, by steps

VARIABLES
    payload,    \* the JSON value handed to Interaction::deserialize
    map,        \* Interaction::deserialize's map, drained as fields are removed
    rec,        \* the fields of Interaction decoded so far, by name
    dmap,       \* ApplicationCommandInteractionData::deserialize's map
    drec,       \* the fields of the data object decoded so far, by name
    pc,         \* the step the decode is at; "done", "err" and "panic" end it
    result      \* None while running; Some(Ok(record)) or Some(Err(message))

vars == <<payload, map, rec, dmap, drec, pc, result>>

NoFields == [k \in {} |-> Null]

\* `?`: the error is returned to the caller, nothing else is.
Fail(e) ==
    /\ pc' = "err"
    /\ result' = Some(Err(e))

\* let mut map = JsonMap::deserialize(deserializer)?;
ReadMap ==
    /\ pc = "start"
    /\ LET r == DecodeJsonMap(payload)
       IN  IF r.ok
           THEN /\ map' = r.v
                /\ pc' = "normalize"
                /\ UNCHANGED result
           ELSE /\ Fail(r.err)
                /\ UNCHANGED map
    /\ UNCHANGED <<payload, rec, dmap, drec>>

\* The normalization pass; the unwrap of a non-object entry panics.
Normalize ==
    /\ pc = "normalize"
    /\ IF NormalizationPanics(map)
       THEN /\ pc' = "panic"
            /\ UNCHANGED map
       ELSE /\ map' = NormalizationPass(map)
            /\ pc' = "id"
    /\ UNCHANGED <<payload, rec, dmap, drec, result>>

\* One extraction of Interaction::deserialize: the key is removed from the map
\* and the decoded value bound to the field, or the error returned.
ExtractStep(at, key, field, r, next) ==
    /\ pc = at
    /\ map' = MapRemove(map, key)
    /\ IF r.ok
       THEN /\ rec' = (field :> r.v) @@ rec
            /\ pc' = next
            /\ UNCHANGED result
       ELSE /\ Fail(r.err)
            /\ UNCHANGED rec
    /\ UNCHANGED <<payload, dmap, drec>>

ExtractId ==
    ExtractStep("id", K("id"), "id",
                RequiredField(map, K("id"), "expected id", DecodeSnowflake(map[K("id")])),
                "application_id")

ExtractApplicationId ==
    ExtractStep("application_id", K("application_id"), "application_id",
                RequiredField(map, K("application_id"), "expected application id",
                              DecodeSnowflake(map[K("application_id")])),
                "type")

ExtractType ==
    ExtractStep("type", K("type"), "kind",
                RequiredField(map, K("type"), "expected type",
                              DecodeInteractionType(map[K("type")])),
                "data")

\* let data = match map.contains_key("data"): absent gives None; present enters
\* ApplicationCommandInteractionData::deserialize with the removed value.
ExtractData ==
    /\ pc = "data"
    /\ map' = MapRemove(map, K("data"))
    /\ IF ~ContainsKey(map, K("data"))
       THEN /\ rec' = ("data" :> None) @@ rec
            /\ pc' = "guild_id"
            /\ UNCHANGED <<dmap, result>>
       ELSE LET r == DecodeJsonMap(map[K("data")])
            IN  IF r.ok
                THEN /\ dmap' = r.v
                     /\ pc' = "data.name"
                     /\ UNCHANGED <<rec, result>>
                ELSE /\ Fail(r.err)
                     /\ UNCHANGED <<rec, dmap>>
    /\ UNCHANGED <<payload, drec>>

\* One extraction of ApplicationCommandInteractionData::deserialize.
DataStep(at, key, field, r, next) ==
    /\ pc = at
    /\ dmap' = MapRemove(dmap, key)
    /\ IF r.ok
       THEN /\ drec' = (field :> r.v) @@ drec
            /\ pc' = next
            /\ UNCHANGED result
       ELSE /\ Fail(r.err)
            /\ UNCHANGED drec
    /\ UNCHANGED <<payload, map, rec>>

DataName ==
    DataStep("data.name", K("name"), "name",
             RequiredField(dmap, K("name"), "expected value", DecodeString(dmap[K("name")])),
             "data.id")

DataId ==
    DataStep("data.id", K("id"), "id",
             RequiredField(dmap, K("id"), "expected value", DecodeSnowflake(dmap[K("id")])),
             "data.resolved")

DataResolved ==
    DataStep("data.resolved", K("resolved"), "resolved",
             OptionalField(dmap, K("resolved"), DecodeResolved(dmap[K("resolved")]),
                           DefaultResolved),
             "data.options")

\* The option decoder handed an empty store.
StoreForOptionsDefault == DefaultResolved

\* The store handed to the option decoder: &resolved, the one just built.
StoreForOptions == drec["resolved"]

DecodeDataOptions(v) == deserialize_options_with_resolved(v, StoreForOptions)

\* The record given an empty store whatever was built.
ReturnedStoreDefault == DefaultResolved

\* The store placed in the record: resolved, the binding of line 239.
ReturnedStore == drec["resolved"]

\* The options, then Ok(Self { name, id, options, resolved }) bound to data.
DataOptions ==
    /\ pc = "data.options"
    /\ dmap' = MapRemove(dmap, K("options"))
    /\ LET r == OptionalField(dmap, K("options"), DecodeDataOptions(dmap[K("options")]), <<>>)
       IN  IF r.ok
           THEN /\ drec' = ("options" :> r.v) @@ drec
                /\ rec' = ("data" :> Some([name |-> drec["name"], id |-> drec["id"],
                                           options |-> r.v,
                                           resolved |-> ReturnedStore])) @@ rec
                /\ pc' = "guild_id"
                /\ UNCHANGED result
           ELSE /\ Fail(r.err)
                /\ UNCHANGED <<rec, drec>>
    /\ UNCHANGED <<payload, map>>

ExtractGuildId ==
    ExtractStep("guild_id", K("guild_id"), "guild_id",
                PresentField(map, K("guild_id"), DecodeSnowflake(map[K("guild_id")])),
                "channel_id")

ExtractChannelId ==
    ExtractStep("channel_id", K("channel_id"), "channel_id",
                PresentField(map, K("channel_id"), DecodeSnowflake(map[K("channel_id")])),
                "member")

ExtractMember ==
    ExtractStep("member", K("member"), "member",
                PresentField(map, K("member"), DecodeMember(map[K("member")])), "user")

ExtractUser ==
    ExtractStep("user", K("user"), "user",
                PresentField(map, K("user"), DecodeUser(map[K("user")])), "token")

ExtractToken ==
    ExtractStep("token", K("token"), "token",
                RequiredField(map, K("token"), "expected token", DecodeString(map[K("token")])),
                "version")

\* The last extraction, then Ok(Self { .. }).
ExtractVersion ==
    /\ pc = "version"
    /\ map' = MapRemove(map, K("version"))
    /\ LET r == RequiredField(map, K("version"), "expected version",
                              DecodeU8(map[K("version")]))
       IN  IF r.ok
           THEN /\ rec' = ("version" :> r.v) @@ rec
                /\ pc' = "done"
                /\ result' = Some(Ok(rec'))
           ELSE /\ Fail(r.err)
                /\ UNCHANGED rec
    /\ UNCHANGED <<payload, dmap, drec>>

\* ApplicationCommandPermissionData (derived Deserialize): id, type, permission,
\* all required; other keys are ignored.
DecodeBool(v) ==
    IF v.t = "bool" THEN Ok(v.b) ELSE Err(<<"TypeMismatch", "boolean">>)

DecodePermissionData(v) ==
    LET m == DecodeJsonMap(v)
    IN  IF ~m.ok THEN m
        ELSE LET id == RequiredField(m.v, K("id"), "missing field id",
                                     DecodeSnowflake(m.v[K("id")]))
                 kind == RequiredField(m.v, K("type"), "missing field type",
                                       DecodePermissionType(m.v[K("type")]))
                 permission == RequiredField(m.v, K("permission"),
                                             "missing field permission",
                                             DecodeBool(m.v[K("permission")]))
             IN  IF ~id.ok THEN id
                 ELSE IF ~kind.ok THEN kind
                 ELSE IF ~permission.ok THEN permission
                 ELSE Ok([id |-> id.v, kind |-> kind.v, permission |-> permission.v])

DeserializePermissionData ==
    /\ pc = "permission"
    /\ LET r == DecodePermissionData(payload)
       IN  /\ result' = Some(r)
           /\ pc' = IF r.ok THEN "permission.done" ELSE "permission.err"
    /\ UNCHANGED <<payload, map, rec, dmap, drec>>

Next ==
    \/ DeserializePermissionData
    \/ ReadMap
    \/ Normalize
    \/ ExtractId
    \/ ExtractApplicationId
    \/ ExtractType
    \/ ExtractData
    \/ DataName
    \/ DataId
    \/ DataResolved
    \/ DataOptions
    \/ ExtractGuildId
    \/ ExtractChannelId
    \/ ExtractMember
    \/ ExtractUser
    \/ ExtractToken
    \/ ExtractVersion

\* ------------------------------------------------------------ the payloads

\* The object whose keys are the fields of r that are Some.
MkObj(r) ==
    JObj([k \in {K(n) : n \in {x \in DOMAIN r : IsSome(r[x])}} |-> r[k[1]][1]])

Ids == 1..MaxId

IdStr(i) == JStr(U64ToString(i))

Text == JStr(K("abc"))

OtherGuild == JStr(<<"9">>)

UserObj(i) == MkObj([id |-> Some(IdStr(i))])

MemberObj(i, guild) == MkObj([user |-> Some(UserObj(i)), guild_id |-> guild])

EntryObj(i, guild) == MkObj([id |-> Some(IdStr(i)), guild_id |-> guild])

GoodRequired ==
    [id |-> Some(IdStr(1)), application_id |-> Some(IdStr(2)), type |-> Some(JNum(2)),
     token |-> Some(Text), version |-> Some(JNum(1))]

NoOptional ==
    [data |-> None, guild_id |-> None, channel_id |-> None, member |-> None,
     user |-> None]

DataObj(name, id, resolved, options) ==
    MkObj([name |-> name, id |-> id, resolved |-> resolved, options |-> options])

GoodData == DataObj(Some(Text), Some(IdStr(1)), None, None)

\* Required fields absent, well-typed or ill-typed, before a data object that
\* is absent or faulty.
PayloadsRequired ==
    { MkObj([id |-> a, application_id |-> b, type |-> c, token |-> d, version |-> e]
            @@ [NoOptional EXCEPT !.data = x]) :
        a \in {None, Some(IdStr(1)), Some(JBool(TRUE))},
        b \in {None, Some(IdStr(2)), Some(JBool(TRUE))},
        c \in {None, Some(JNum(2)), Some(Text)},
        d \in {None, Some(Text), Some(JNum(1))},
        e \in {None, Some(JNum(1)), Some(Text)},
        x \in {None, Some(Null)} }

\* Every discriminant, with and without a data object.
PayloadsKind ==
    { MkObj([GoodRequired EXCEPT !.type = Some(JNum(n))] @@ [NoOptional EXCEPT !.data = x]) :
        n \in 0..MaxDiscriminant, x \in {None, Some(GoodData)} }

\* Optional fields absent, present or null.
PayloadsOptional ==
    { MkObj([GoodRequired EXCEPT !.type = Some(JNum(n))]
            @@ [data |-> x, guild_id |-> g, channel_id |-> c, member |-> m, user |-> u]) :
        n \in {1, 2},
        x \in {None, Some(GoodData), Some(Null)},
        g \in {None, Some(IdStr(1)), Some(Null)},
        c \in {None, Some(IdStr(2)), Some(Null)},
        m \in {None, Some(MemberObj(1, None)), Some(Null)},
        u \in {None, Some(UserObj(1)), Some(Null)} }

\* The forms of a top-level guild_id.
GuildForms ==
    {None, Some(JStr(<<"1", "0">>)), Some(JStr(<<"+", "7">>)), Some(JStr(<<"0", "7">>)),
     Some(JNum(10)), Some(JStr(K("x"))), Some(Null)}

MemberForms ==
    {None, Some(MemberObj(1, None)), Some(MemberObj(1, Some(OtherGuild))), Some(Text)}

\* A roles or channels section: absent, not an object, or an object whose
\* entries are objects (with or without a guild_id of their own) or not.
EntryForms(i) == {None, Some(EntryObj(i, None)), Some(EntryObj(i, Some(OtherGuild))), Some(Null)}

SectionForms ==
    {None, Some(Null)} \cup
    { Some(JObj([k \in {U64ToString(i) : i \in {j \in Ids : IsSome(f[j])}} |->
                    f[ParseU64(k)[1]][1]])) :
        f \in {g \in [Ids -> UNION {EntryForms(i) : i \in Ids}] :
                  \A i \in Ids : g[i] \in EntryForms(i)} }

FewSectionForms ==
    {None, Some(JObj(K("1") :> EntryObj(1, None))), Some(JObj(K("1") :> Null))}

ResolvedObj(users, members, roles, channels) ==
    MkObj([users |-> users, members |-> members, roles |-> roles, channels |-> channels])

\* What the normalization pass can meet.
PayloadsNormalize ==
    { MkObj(GoodRequired @@
            [NoOptional EXCEPT !.guild_id = g, !.member = m,
                               !.data = Some(DataObj(Some(Text), Some(IdStr(1)),
                                                     Some(ResolvedObj(None, None, r, c)),
                                                     None))]) :
        g \in GuildForms, m \in MemberForms, r \in SectionForms, c \in FewSectionForms }
    \cup
    { MkObj(GoodRequired @@
            [NoOptional EXCEPT !.guild_id = g,
                               !.data = Some(DataObj(Some(Text), Some(IdStr(1)),
                                                     Some(ResolvedObj(None, None, r, c)),
                                                     None))]) :
        g \in GuildForms, r \in FewSectionForms, c \in SectionForms }
    \cup
    { MkObj(GoodRequired @@ [NoOptional EXCEPT !.guild_id = g, !.member = m, !.data = x]) :
        g \in GuildForms, m \in MemberForms,
        x \in {None, Some(Text), Some(GoodData),
               Some(DataObj(Some(Text), Some(IdStr(1)), Some(Text), None))} }

\* The resolved store with the given key sets; absent sections are None.
WireEntry(section, i) ==
    CASE section = "users" -> UserObj(i)
      [] section = "members" -> MemberObj(i, None)
      [] OTHER -> EntryObj(i, None)

IdSection(S, section) ==
    Some(JObj([k \in {U64ToString(i) : i \in S} |-> WireEntry(section, ParseU64(k)[1])]))

\* Each mapping absent, empty or full, independently; and a faulty resolved.
PayloadsStore ==
    { MkObj(GoodRequired @@
            [NoOptional EXCEPT !.data = Some(DataObj(Some(Text), Some(IdStr(1)),
                                                     Some(ResolvedObj(u, m, r, c)), None))]) :
        u \in {None, IdSection({}, "users"), IdSection(Ids, "users")},
        m \in {None, IdSection({}, "members"), IdSection(Ids, "members")},
        r \in {None, IdSection({}, "roles"), IdSection(Ids, "roles")},
        c \in {None, IdSection({}, "channels"), IdSection(Ids, "channels")} }
    \cup
    { MkObj(GoodRequired @@
            [NoOptional EXCEPT !.data = Some(DataObj(Some(Text), Some(IdStr(1)),
                                                     Some(ResolvedObj(u, m, None, None)),
                                                     None))]) :
        u \in {None, Some(Null), Some(JObj(K("1") :> Null)), Some(JObj(K("x") :> UserObj(1)))},
        m \in {None, Some(Null), Some(JObj(K("1") :> MkObj([nick |-> Some(Text)])))} }
    \cup
    { MkObj(GoodRequired @@ [NoOptional EXCEPT !.data = Some(DataObj(n, i, r, None))]) :
        n \in {None, Some(Text), Some(JNum(1))},
        i \in {None, Some(IdStr(1)), Some(JBool(TRUE))},
        r \in {None, Some(Null), Some(ResolvedObj(None, None, None, None))} }

\* One option of the wire.
OptionObj(name, type, value, options) ==
    MkObj([name |-> Some(JStr(K(name))), type |-> Some(JNum(type)), value |-> value,
           options |-> options])

ReferenceTypes == {OptionTypeNumber.User, OptionTypeNumber.Channel, OptionTypeNumber.Role}

\* Options that carry a value or should: a reference to each identifier, a value
\* of each primitive kind, values whose shape does not fit the kind.
Leaves ==
    { OptionObj("a", t, Some(v), None) :
        t \in ReferenceTypes, v \in {IdStr(i) : i \in Ids} \cup {JNum(1), Text} }
    \cup
    { OptionObj("a", tv[1], tv[2], None) :
        tv \in { <<OptionTypeNumber.String, Some(Text)>>,
                 <<OptionTypeNumber.String, Some(JNum(1))>>,
                 <<OptionTypeNumber.String, None>>,
                 <<OptionTypeNumber.Integer, Some(JNum(1))>>,
                 <<OptionTypeNumber.Integer, Some(IdStr(1))>>,
                 <<OptionTypeNumber.Boolean, Some(JBool(TRUE))>>,
                 <<OptionTypeNumber.Boolean, Some(IdStr(1))>>,
                 <<MaxDiscriminant, Some(Text)>> } }

SecondLeaves ==
    { OptionObj("b", OptionTypeNumber.User, Some(IdStr(1)), None),
      OptionObj("b", OptionTypeNumber.String, Some(Text), None) }

OptionLists ==
    {<<>>} \cup {<<l>> : l \in Leaves} \cup {<<l, k>> : l \in Leaves, k \in SecondLeaves}

\* The list inside d containers: a SubCommand innermost, SubCommandGroups around.
RECURSIVE Nest(_, _)
Nest(list, d) ==
    IF d = 0 THEN list
    ELSE <<OptionObj("c", IF d = 1 THEN OptionTypeNumber.SubCommand
                            ELSE OptionTypeNumber.SubCommandGroup,
                     None, Some(JArr(Nest(list, d - 1))))>>

\* The store with users U and members M, roles and channels their complements.
StoreObj(U, M) ==
    ResolvedObj(IdSection(U, "users"), IdSection(M, "members"),
                IdSection(Ids \ U, "roles"), IdSection(Ids \ M, "channels"))

\* Options of every kind and depth against stores that hold or lack what they
\* refer to.
PayloadsResolve ==
    { MkObj(GoodRequired @@
            [NoOptional EXCEPT !.data = Some(DataObj(Some(Text), Some(IdStr(1)),
                                                     Some(StoreObj(U, M)),
                                                     Some(JArr(Nest(list, d)))))]) :
        U \in SUBSET Ids, M \in SUBSET Ids, list \in OptionLists, d \in 0..MaxDepth }
    \cup
    { MkObj(GoodRequired @@
            [NoOptional EXCEPT !.data = Some(DataObj(Some(Text), Some(IdStr(1)), r, o))]) :
        r \in {None, Some(StoreObj(Ids, {}))},
        o \in {Some(Null), Some(JArr(<<Null>>)),
               Some(JArr(<<MkObj([type |-> Some(JNum(3))])>>)),
               Some(JArr(<<MkObj([name |-> Some(Text)])>>)),
               Some(JArr(<<OptionObj("a", OptionTypeNumber.User, Some(IdStr(1)), None)>>))} }

\* The scenario of the specification: a guild interaction whose option refers
\* to user 5, with and without users["5"] in the store.
ScenarioUser == MkObj([id |-> Some(JStr(<<"5">>)), username |-> Some(JStr(K("bob")))])

ScenarioMember == MkObj([user |-> Some(MkObj([id |-> Some(JStr(<<"5">>))]))])

PayloadsScenario ==
    { MkObj([GoodRequired EXCEPT !.application_id = Some(IdStr(2))] @@
            [NoOptional EXCEPT
               !.guild_id = Some(JStr(<<"1", "0">>)),
               !.member = Some(ScenarioMember),
               !.data = Some(DataObj(Some(JStr(K("ping"))), Some(JStr(<<"3">>)),
                     Some(ResolvedObj(u, Some(JObj(<<"5">> :> ScenarioMember)), None, None)),
                     Some(JArr(<<OptionObj("who", OptionTypeNumber.User,
                                           Some(JStr(<<"5">>)), None)>>))))]) :
        u \in {Some(JObj(<<"5">> :> ScenarioUser)), Some(JObj(EmptyMap))} }

\* Containers that carry a value key of their own, around one leaf.
PayloadsContainerValue ==
    { MkObj(GoodRequired @@
            [NoOptional EXCEPT !.data = Some(DataObj(Some(Text), Some(IdStr(1)),
                                                     Some(StoreObj(Ids, {})),
                                                     Some(JArr(<<OptionObj("c", t, Some(v),
                                                                   Some(JArr(<<l>>)))>>))))]) :
        t \in {OptionTypeNumber.SubCommand, OptionTypeNumber.SubCommandGroup},
        v \in {Text, IdStr(1)}, l \in SecondLeaves }

\* A payload with every part the normalization pass must leave alone, and with
\* guild_id fields already on the objects it scopes.
PayloadsFrame ==
    { MkObj(GoodRequired @@
            [data |-> Some(DataObj(Some(Text), Some(IdStr(1)),
                                   Some(ResolvedObj(IdSection(Ids, "users"),
                                                    IdSection(Ids, "members"), r, c)),
                                   Some(JArr(<<OptionObj("a", OptionTypeNumber.String,
                                                         Some(Text), None)>>)))),
             guild_id |-> g, channel_id |-> Some(IdStr(2)),
             member |-> Some(MemberObj(1, Some(OtherGuild))),
             user |-> Some(UserObj(1))]) :
        g \in GuildForms,
        r \in {None, Some(JObj(K("1") :> EntryObj(1, Some(OtherGuild))
                                @@ K("2") :> EntryObj(2, None)))},
        c \in {None, Some(JObj(K("1") :> EntryObj(1, Some(OtherGuild))))} }

Payloads ==
    {Null, JArr(<<>>)} \cup PayloadsRequired \cup PayloadsKind \cup PayloadsOptional
    \cup PayloadsNormalize \cup PayloadsStore \cup PayloadsResolve \cup PayloadsScenario
    \cup PayloadsContainerValue \cup PayloadsFrame

\* Permission data with every discriminant, and with fields missing or ill-typed.
PayloadsPermission ==
    { MkObj([id |-> i, type |-> t, permission |-> b]) :
        i \in {None, Some(IdStr(1))},
        t \in {None, Some(Text)} \cup {Some(JNum(n)) : n \in 0..MaxDiscriminant},
        b \in {None, Some(JBool(TRUE)), Some(JBool(FALSE))} }

Init ==
    /\ \/ payload \in Payloads /\ pc = "start"
       \/ payload \in PayloadsPermission /\ pc = "permission"
    /\ map = EmptyMap
    /\ rec = NoFields
    /\ dmap = EmptyMap
    /\ drec = NoFields
    /\ result = None

Spec == Init /\ [][Next]_vars

\* ---------------------------------------------------------------- the claims

Terminal == pc \in {"done", "err", "panic"}

\* The identifier a JSON value denotes, if any.
GuildValue(v) ==
    CASE v.t = "str" -> ParseU64(v.s)
      [] v.t = "num" -> Some(v.n)
      [] OTHER -> None

HasTopGuild(p) == IsObject(p) /\ ContainsKey(p.m, K("guild_id"))

\* The object carries a guild_id equal to the value top: the same JSON value, or
\* one that denotes the same identifier.
Carries(obj, top) ==
    /\ IsObject(obj)
    /\ ContainsKey(obj.m, K("guild_id"))
    /\ LET x == obj.m[K("guild_id")]
       IN  \/ x.t = top.t /\ x = top
           \/ IsSome(GuildValue(top)) /\ GuildValue(x) = GuildValue(top)

\* The entries of data.resolved.<section> of a payload map, if it has them.
EntriesOf(m, section) ==
    IF IsSome(DataResolvedOf(m)) THEN SectionEntries(DataResolvedOf(m)[1], section) ELSE None

\* The member object if present and every entry of roles and of channels carry
\* the value top.
AllScoped(m, top) ==
    /\ (ContainsKey(m, K("member")) /\ IsObject(m[K("member")])) => Carries(m[K("member")], top)
    /\ \A section \in {K("roles"), K("channels")} :
          IsSome(EntriesOf(m, section)) =>
             \A k \in DOMAIN EntriesOf(m, section)[1] :
                Carries(EntriesOf(m, section)[1][k], top)

\* The normalization pass has just completed.
Normalized == pc = "id"

\* C1 as stated: with any top-level guild_id, after the normalization pass the
\* member object and every entry of resolved.roles and resolved.channels carry
\* that guild_id; without one the payload is as received.
C1_AnyGuildIdScopes ==
    Normalized =>
       /\ HasTopGuild(payload) => AllScoped(map, payload.m[K("guild_id")])
       /\ ~HasTopGuild(payload) => map = payload.m

\* The top-level guild_id is a JSON string that parses as u64.
GuildIsIdString(p) ==
    /\ HasTopGuild(p)
    /\ p.m[K("guild_id")].t = "str"
    /\ IsSome(ParseU64(p.m[K("guild_id")].s))

\* C1 amended: when the top-level guild_id is a string that parses as u64, after
\* the normalization pass the member object if present and every entry of
\* resolved.roles and resolved.channels carry the identifier it denotes; without
\* a top-level guild_id the payload is as received.
C1_IdStringScopes ==
    Normalized =>
       /\ GuildIsIdString(payload) => AllScoped(map, payload.m[K("guild_id")])
       /\ ~HasTopGuild(payload) => map = payload.m

\* A guild payload with a member object, two roles and a channel has been
\* normalized.
C1_Witness ==
    /\ Normalized
    /\ GuildIsIdString(payload)
    /\ ContainsKey(map, K("member")) /\ IsObject(map[K("member")])
    /\ IsSome(EntriesOf(map, K("roles")))
    /\ Cardinality(DOMAIN EntriesOf(map, K("roles"))[1]) >= 2
    /\ IsSome(EntriesOf(map, K("channels")))
    /\ DOMAIN EntriesOf(map, K("channels"))[1] # {}

\* C7 as stated: the normalization pass never fails or aborts the decode; from
\* every payload shape the decode goes on to the typed extraction.
C7_NormalizationNeverAborts == [][pc = "normalize" => pc' = "id"]_vars

\* C3 as stated: a decode ends with a complete record or with an error and no
\* record, never in a third way.
InteractionFields ==
    {"id", "application_id", "kind", "data", "guild_id", "channel_id", "member", "user",
     "token", "version"}

C3_RecordOrError ==
    Terminal =>
       \/ /\ pc = "done"
          /\ IsSome(result) /\ result[1].ok
          /\ DOMAIN result[1].v = InteractionFields
       \/ /\ pc = "err"
          /\ IsSome(result) /\ ~result[1].ok


\* The messages that name a field.
MessagesNaming(f) ==
    CASE f = "id" -> {<<"expected id">>, <<"MissingField", "id">>}
      [] f = "application_id" ->
            {<<"expected application id">>, <<"expected application_id">>,
             <<"MissingField", "application_id">>}
      [] f = "type" -> {<<"expected type">>, <<"MissingField", "type">>}
      [] f = "token" -> {<<"expected token">>, <<"MissingField", "token">>}
      [] f = "version" -> {<<"expected version">>, <<"MissingField", "version">>}
      [] f = "name" -> {<<"expected name">>, <<"MissingField", "name">>}

FailsNaming(f) == pc' = "err" /\ result'[1].err \in MessagesNaming(f)

\* C4 as stated, for absent fields: when a required top-level field is absent at
\* its extraction the decode fails with an error that names it, and a data
\* object without name or without id fails with an error that names which.
C4_MissingFieldNamed ==
    [][ /\ \A f \in {"id", "application_id", "type", "token", "version"} :
              (pc = f /\ ~ContainsKey(map, K(f))) => FailsNaming(f)
        /\ (pc = "data.name" /\ ~ContainsKey(dmap, K("name"))) => FailsNaming("name")
        /\ (pc = "data.id" /\ ~ContainsKey(dmap, K("id"))) => FailsNaming("id") ]_vars

\* C5 as stated: a decoded record has data if and only if its kind is
\* ApplicationCommand.
C5_DataIffApplicationCommand ==
    pc = "done" => (IsSome(rec["data"]) <=> rec["kind"] = "ApplicationCommand")

\* C6 as stated: a decoded record has member and no user when it has a guild_id,
\* and user and no member when it has none.
C6_ExactlyOneOfMemberUser ==
    pc = "done" =>
       IF IsSome(rec["guild_id"])
       THEN IsSome(rec["member"]) /\ ~IsSome(rec["user"])
       ELSE IsSome(rec["user"]) /\ ~IsSome(rec["member"])

OptionalFields == {"data", "guild_id", "channel_id", "member", "user"}

\* C8: every optional field decoded so far, and so every one of a returned
\* record, is present if and only if the payload has its key, whatever the
\* key's value (a null included).
C8_PresenceDecides ==
    \A f \in OptionalFields \cap DOMAIN rec :
       IsSome(rec[f]) <=> ContainsKey(payload.m, K(f))

\* A decode has returned a record from a payload with some optional keys and
\* without others.
C8_Witness ==
    /\ pc = "done"
    /\ IsSome(rec["data"]) /\ IsSome(rec["guild_id"]) /\ IsSome(rec["member"])
    /\ ~IsSome(rec["channel_id"]) /\ ~IsSome(rec["user"])

InteractionKindOf(n) ==
    CASE n = 1 -> "Ping" [] n = 2 -> "ApplicationCommand" [] OTHER -> "Unknown"

PermissionKindOf(n) ==
    CASE n = 1 -> "Role" [] n = 2 -> "User" [] OTHER -> "Unknown"

\* A payload whose fields other than type are those of well-formed permission data.
PermissionWithNumber(p) ==
    /\ ContainsKey(p.m, K("id")) /\ ContainsKey(p.m, K("permission"))
    /\ ContainsKey(p.m, K("type")) /\ p.m[K("type")].t = "num"

\* The value is a list of one well-formed option without nested options whose
\* type is a number outside the known kinds.
OneUnknownOption(v) ==
    /\ v.t = "arr" /\ Len(v.a) = 1
    /\ IsObject(v.a[1])
    /\ ContainsKey(v.a[1].m, K("name")) /\ v.a[1].m[K("name")].t = "str"
    /\ ContainsKey(v.a[1].m, K("type")) /\ v.a[1].m[K("type")].t = "num"
    /\ v.a[1].m[K("type")].n \notin 1..8
    /\ ~ContainsKey(v.a[1].m, K("options"))

\* C9: type 1 decodes to Ping, 2 to ApplicationCommand and any other integer to
\* Unknown, the extraction of type not failing; an option type and a permission
\* type outside their known values decode to Unknown without failing.
C9_Discriminants ==
    [][ /\ (pc = "type" /\ ContainsKey(map, K("type")) /\ map[K("type")].t = "num") =>
              /\ pc' = "data"
              /\ rec'["kind"] = InteractionKindOf(map[K("type")].n)
        /\ (pc = "permission" /\ PermissionWithNumber(payload)) =>
              /\ pc' = "permission.done"
              /\ result'[1].v.kind = PermissionKindOf(payload.m[K("type")].n)
        /\ (pc = "data.options" /\ ContainsKey(dmap, K("options"))
              /\ OneUnknownOption(dmap[K("options")])) =>
              /\ pc' = "guild_id"
              /\ drec'["options"][1].kind = "Unknown" ]_vars

\* A type outside the known values has been decoded to Unknown.
C9_Witness ==
    /\ pc = "data"
    /\ payload.m[K("type")] = JNum(MaxDiscriminant)
    /\ rec["kind"] = "Unknown"

StoreSections == {"users", "members", "roles", "channels"}

SectionDecoded(v, section) ==
    CASE section = "users" -> deserialize_users(v)
      [] section = "members" -> deserialize_partial_members_map(v)
      [] section = "roles" -> deserialize_roles_map(v)
      [] section = "channels" -> deserialize_channels_map(v)

\* C10: without a resolved key the data object gets a store of four empty
\* mappings and no error; with a resolved object whose present mappings are
\* well-formed, each mapping whose key is absent is empty, whatever the others.
C10_AbsentIsEmpty ==
    [][ pc = "data.resolved" =>
          /\ ~ContainsKey(dmap, K("resolved")) =>
                /\ pc' = "data.options"
                /\ \A x \in StoreSections : DOMAIN drec'["resolved"][x] = {}
          /\ ( /\ ContainsKey(dmap, K("resolved"))
               /\ IsObject(dmap[K("resolved")])
               /\ \A x \in StoreSections :
                     ContainsKey(dmap[K("resolved")].m, K(x)) =>
                        SectionDecoded(dmap[K("resolved")].m[K(x)], x).ok ) =>
                /\ pc' = "data.options"
                /\ \A x \in StoreSections :
                      ~ContainsKey(dmap[K("resolved")].m, K(x)) =>
                         DOMAIN drec'["resolved"][x] = {} ]_vars

\* A store has been decoded from a resolved object that has users and no other
\* mapping.
C10_Witness ==
    /\ pc = "data.options"
    /\ IsSome(DataResolvedOf(payload.m))
    /\ IsObject(DataResolvedOf(payload.m)[1])
    /\ DOMAIN DataResolvedOf(payload.m)[1].m = {K("users")}
    /\ DOMAIN drec["resolved"]["users"] # {}
    /\ \A x \in StoreSections \ {"users"} : DOMAIN drec["resolved"][x] = {}

\* The references of a list of wire options, at any depth: the kind and the
\* identifier of every option of kind User, Channel or Role whose raw value is
\* an identifier string.
WireType(o) ==
    IF IsObject(o) /\ ContainsKey(o.m, K("type")) /\ o.m[K("type")].t = "num"
    THEN Some(o.m[K("type")].n) ELSE None

WireIdentifier(o) ==
    IF IsObject(o) /\ ContainsKey(o.m, K("value")) /\ o.m[K("value")].t = "str"
    THEN ParseU64(o.m[K("value")].s) ELSE None

WireNested(o) ==
    IF IsObject(o) /\ ContainsKey(o.m, K("options")) /\ o.m[K("options")].t = "arr"
    THEN o.m[K("options")].a ELSE <<>>

WireKindName(n) ==
    CASE n = 6 -> "User" [] n = 7 -> "Channel" [] n = 8 -> "Role" [] OTHER -> "Other"

RECURSIVE RefsIn(_)
RefsIn(a) ==
    UNION { (IF /\ IsSome(WireType(a[i])) /\ WireType(a[i])[1] \in {6, 7, 8}
                /\ IsSome(WireIdentifier(a[i]))
             THEN {<<WireKindName(WireType(a[i])[1]), WireIdentifier(a[i])[1]>>}
             ELSE {})
            \cup RefsIn(WireNested(a[i])) : i \in 1..Len(a) }

\* Every option of the list, at any depth, is a named reference with an
\* identifier string, or a named container of such options.
RECURSIVE OnlyRefs(_)
OnlyRefs(a) ==
    \A i \in 1..Len(a) :
       /\ IsObject(a[i])
       /\ ContainsKey(a[i].m, K("name")) /\ a[i].m[K("name")].t = "str"
       /\ IsSome(WireType(a[i]))
       /\ \/ /\ WireType(a[i])[1] \in {6, 7, 8}
             /\ IsSome(WireIdentifier(a[i]))
             /\ ~ContainsKey(a[i].m, K("options"))
          \/ /\ WireType(a[i])[1] \in {1, 2}
             /\ ~ContainsKey(a[i].m, K("value"))
             /\ ContainsKey(a[i].m, K("options")) /\ a[i].m[K("options")].t = "arr"
             /\ OnlyRefs(a[i].m[K("options")].a)

StoreMapping(store, kindName) ==
    CASE kindName = "User" -> store.users
      [] kindName = "Channel" -> store.channels
      [] kindName = "Role" -> store.roles

\* The references of the list that the store does not hold.
Unresolved(a, store) == {r \in RefsIn(a) : r[2] \notin DOMAIN StoreMapping(store, r[1])}

\* C2: the options of the data object decode only if every identifier a User,
\* Channel or Role option refers to is a key of the users, channels or roles
\* mapping of the store; and a list made of such options alone decodes if and
\* only if they all are, failing with UnresolvedReference of an absent one
\* otherwise.
C2_ReferencesResolve ==
    [][ (pc = "data.options" /\ ContainsKey(dmap, K("options"))
           /\ dmap[K("options")].t = "arr") =>
          LET a == dmap[K("options")].a
              missing == Unresolved(a, drec["resolved"])
          IN  /\ pc' = "guild_id" => missing = {}
              /\ OnlyRefs(a) =>
                    /\ pc' = "guild_id" <=> missing = {}
                    /\ missing # {} =>
                          /\ pc' = "err"
                          /\ \E r \in missing :
                                result'[1].err = <<"UnresolvedReference", r[1], r[2]>> ]_vars

\* The scenario without users["5"] has failed with UnresolvedReference(User, 5).
C2_Witness ==
    /\ pc = "err"
    /\ payload \in PayloadsScenario
    /\ result = Some(Err(<<"UnresolvedReference", "User", 5>>))

RequiredFields == {"id", "application_id", "kind", "token", "version"}

RequiredKeys == {"id", "application_id", "type", "token", "version"}

\* The required keys the payload lacks.
MissingRequired(p) == {f \in RequiredKeys : ~ContainsKey(p.m, K(f))}

\* The steps that decode an optional field, those inside the data object included.
OptionalSteps ==
    {"data", "data.name", "data.id", "data.resolved", "data.options", "guild_id",
     "channel_id", "member", "user"}

\* C11 as stated: the normalization pass runs before anything is removed from the
\* payload, no step decodes an optional field before the five required fields
\* are extracted, and a payload that lacks a required field fails at the
\* extraction of a required field, whatever its optional fields hold.
C11_RequiredBeforeOptional ==
    [][ /\ pc = "normalize" => (DOMAIN rec = {} /\ map = payload.m)
        /\ pc \in OptionalSteps => RequiredFields \subseteq DOMAIN rec
        /\ (pc' = "err" /\ IsObject(payload) /\ MissingRequired(payload) # {})
              => pc \in RequiredKeys ]_vars

\* The store the payload describes: the decode of data.resolved as the
\* normalization pass leaves it, the empty store when the key is absent.
StoreOfPayload ==
    LET r == DataResolvedOf(NormalizationPass(payload.m))
    IN  IF IsSome(r) THEN DecodeResolved(r[1]).v ELSE DefaultResolved

\* The options the wire value decodes to against the store.
OptionsAgainst(wire, store) ==
    IF IsSome(wire) THEN deserialize_options_with_resolved(wire[1], store) ELSE Ok(<<>>)

\* C12: no option is decoded before the store is; when the options are decoded
\* the store is the one built from the payload, the options are resolved
\* against it, and it is unchanged by them: the returned record holds that store.
C12_StoreBeforeOptions ==
    [][ /\ pc \in {"data.name", "data.id", "data.resolved"} => "options" \notin DOMAIN drec
        /\ pc = "data.options" =>
              /\ "resolved" \in DOMAIN drec /\ "options" \notin DOMAIN drec
              /\ drec["resolved"] = StoreOfPayload
              /\ pc' = "guild_id" =>
                    /\ drec'["resolved"] = StoreOfPayload
                    /\ rec'["data"][1].resolved = StoreOfPayload
                    /\ Ok(rec'["data"][1].options) =
                          OptionsAgainst(ValueGet(payload.m[K("data")], K("options")),
                                         StoreOfPayload) ]_vars

\* A data object has been returned whose first option was resolved to a user of
\* its store.
C12_Witness ==
    /\ pc = "guild_id"
    /\ IsSome(rec["data"])
    /\ DOMAIN rec["data"][1].resolved.users # {}
    /\ Len(rec["data"][1].options) >= 1
    /\ IsSome(rec["data"][1].options[1].resolved)
    /\ rec["data"][1].options[1].resolved[1].tag = "User"

Containers == {"SubCommand", "SubCommandGroup"}

\* The decoded options follow the wire options one for one, in order and at
\* every depth: same name, kind and raw value; a container without a resolved
\* value; an option with a raw value resolved as its kind and the store say; an
\* option without nested options equal to what the same wire option decodes to
\* at top level.
RECURSIVE OptionsMirror(_, _, _)
OptionsMirror(opts, wire, store) ==
    /\ Len(opts) = Len(wire)
    /\ \A i \in 1..Len(opts) :
          LET o == opts[i]
              w == wire[i]
          IN  /\ o.name = w.m[K("name")].s
              /\ o.kind = EnumFromNumber(w.m[K("type")].n, OptionTypeNumber)
              /\ o.value = ValueGet(w, K("value"))
              /\ o.kind \in Containers => o.resolved = None
              /\ IsSome(o.value) => Ok(o.resolved) = ResolveValue(o.kind, o.value[1], store)
              /\ ~ContainsKey(w.m, K("options")) =>
                    Ok(<<o>>) = deserialize_options_with_resolved(JArr(<<w>>), store)
              /\ OptionsMirror(o.options, WireNested(w), store)

\* No container of the decoded options, at any depth, has a raw value.
RECURSIVE ContainersWithoutValue(_)
ContainersWithoutValue(opts) ==
    \A i \in 1..Len(opts) :
       /\ opts[i].kind \in Containers => opts[i].value = None
       /\ ContainersWithoutValue(opts[i].options)

\* The options of the data object have just been decoded from an array.
OptionsDecoded == pc = "data.options" /\ ContainsKey(dmap, K("options")) /\ pc' = "guild_id"

\* C13 as stated: every container decodes with no value and no resolved value,
\* and the nested options are decoded in order against the same store, each
\* resolved as a top-level option of the same kind and raw value is.
C13_ContainersCarryNothing ==
    [][ OptionsDecoded =>
          /\ ContainersWithoutValue(drec'["options"])
          /\ OptionsMirror(drec'["options"], dmap[K("options")].a, drec["resolved"]) ]_vars

\* C13 amended: a container decodes with the raw value its wire option gives it
\* (none when it has no value key) and with no resolved value, and the nested
\* options are decoded in order against the same store, each resolved as a
\* top-level option of the same kind and raw value is.
C13_NestedResolved ==
    [][ OptionsDecoded =>
          OptionsMirror(drec'["options"], dmap[K("options")].a, drec["resolved"]) ]_vars

\* A group holding a subcommand holding two options, the first resolved to a
\* user, has been decoded.
C13_Witness ==
    /\ pc = "guild_id"
    /\ IsSome(rec["data"])
    /\ Len(rec["data"][1].options) = 1
    /\ LET group == rec["data"][1].options[1]
       IN  /\ group.kind = "SubCommandGroup" /\ group.value = None /\ group.resolved = None
           /\ Len(group.options) = 1
           /\ group.options[1].kind = "SubCommand"
           /\ Len(group.options[1].options) = 2
           /\ IsSome(group.options[1].options[1].resolved)
           /\ group.options[1].options[1].resolved[1].tag = "User"
           /\ group.options[1].options[2].name = K("b")

\* The variant a declared option type stands for, by its number on the wire.
ValueKindName(n) ==
    CASE n = 3 -> "String" [] n = 4 -> "Integer" [] n = 5 -> "Boolean"
      [] n = 6 -> "User" [] n = 7 -> "Channel" [] n = 8 -> "Role"

\* The wire option declares one of the six value kinds and carries a value.
CarriesValue(w) ==
    /\ IsSome(WireType(w)) /\ WireType(w)[1] \in 3..8
    /\ ContainsKey(w.m, K("value"))

\* The shape of the raw value does not fit the declared kind.
Misfit(w) ==
    /\ CarriesValue(w)
    /\ LET n == WireType(w)[1]
           v == w.m[K("value")]
       IN  CASE n = 3 -> v.t # "str"
             [] n = 4 -> v.t # "num"
             [] n = 5 -> v.t # "bool"
             [] OTHER -> ~IsSome(WireIdentifier(w))

RECURSIVE AnyMisfit(_)
AnyMisfit(a) == \E i \in 1..Len(a) : Misfit(a[i]) \/ AnyMisfit(WireNested(a[i]))

\* Every decoded option whose wire option carries a value has the variant of the
\* declared kind; a User variant pairs users[id] with members[id] when the store
\* has it and with no member otherwise.
RECURSIVE VariantsByKind(_, _, _)
VariantsByKind(opts, wire, store) ==
    /\ Len(opts) = Len(wire)
    /\ \A i \in 1..Len(opts) :
          LET o == opts[i]
              w == wire[i]
          IN  /\ CarriesValue(w) =>
                    /\ IsSome(o.resolved)
                    /\ o.resolved[1].tag = ValueKindName(WireType(w)[1])
              /\ (CarriesValue(w) /\ WireType(w)[1] = 6) =>
                    LET id == WireIdentifier(w)[1]
                    IN  /\ o.resolved[1].user = store.users[id]
                        /\ o.resolved[1].member =
                              IF id \in DOMAIN store.members
                              THEN Some(store.members[id]) ELSE None
              /\ VariantsByKind(o.options, WireNested(w), store)

\* The list is one well-formed option of a value kind without nested options.
OneValueOption(a) ==
    /\ Len(a) = 1
    /\ IsObject(a[1])
    /\ ContainsKey(a[1].m, K("name")) /\ a[1].m[K("name")].t = "str"
    /\ CarriesValue(a[1])
    /\ ~ContainsKey(a[1].m, K("options"))

C15_OnlyIdStringActs ==
    [][ /\ (pc = "normalize" /\ ~GuildIsIdString(payload)) => (pc' = "id" /\ map' = map)
        /\ (pc = "guild_id" /\ HasTopGuild(payload)) =>
              /\ ContainsKey(map, K("guild_id"))
              /\ map[K("guild_id")] = payload.m[K("guild_id")]
              /\ LET r == DecodeSnowflake(map[K("guild_id")])
                 IN  IF r.ok
                     THEN pc' = "channel_id" /\ rec'["guild_id"] = Some(r.v)
                     ELSE pc' = "err" /\ result' = Some(Err(r.err)) ]_vars

\* A payload whose guild_id is a JSON number had it decoded, its member object
\* and its roles and channels as received.
C15_Witness ==
    /\ pc = "channel_id"
    /\ HasTopGuild(payload) /\ payload.m[K("guild_id")].t = "num"
    /\ rec["guild_id"] = Some(payload.m[K("guild_id")].n)
    /\ ContainsKey(map, K("member")) /\ IsObject(map[K("member")])
    /\ ~ContainsKey(map[K("member")].m, K("guild_id"))
    /\ IsSome(EntriesOf(payload.m, K("roles")))
    /\ DOMAIN EntriesOf(payload.m, K("roles"))[1] # {}
    /\ IsSome(rec["data"])
    /\ \E id \in DOMAIN rec["data"][1].resolved.roles :
          rec["data"][1].resolved.roles[id].guild_id = None

\* Two JSON values equal but for the guild_id field of the object they are.
SameButGuildId(a, b) ==
    /\ a.t = b.t
    /\ IF IsObject(a)
       THEN /\ ContainsKey(a.m, K("guild_id")) => ContainsKey(b.m, K("guild_id"))
            /\ MapRemove(a.m, K("guild_id")) = MapRemove(b.m, K("guild_id"))
       ELSE a = b

\* Two objects with the same keys, the values of the keys outside S equal.
SameOutside(a, b, S) ==
    /\ DOMAIN a = DOMAIN b
    /\ \A k \in DOMAIN a \ S : a[k] = b[k]

\* A roles or channels section equal but for the guild_id of its entries.
SameSection(a, b) ==
    /\ a.t = b.t
    /\ IF IsObject(a)
       THEN DOMAIN a.m = DOMAIN b.m /\ \A k \in DOMAIN a.m : SameButGuildId(a.m[k], b.m[k])
       ELSE a = b

\* The resolved value equal but for the guild_id of the entries of roles and of
\* channels.
SameResolved(a, b) ==
    /\ a.t = b.t
    /\ IF IsObject(a)
       THEN /\ SameOutside(a.m, b.m, {K("roles"), K("channels")})
            /\ \A k \in {K("roles"), K("channels")} \cap DOMAIN a.m : SameSection(a.m[k], b.m[k])
       ELSE a = b

\* The data value equal but for what SameResolved lets differ.
SameData(a, b) ==
    /\ a.t = b.t
    /\ IF IsObject(a)
       THEN /\ SameOutside(a.m, b.m, {K("resolved")})
            /\ ContainsKey(a.m, K("resolved")) =>
                  SameResolved(a.m[K("resolved")], b.m[K("resolved")])
       ELSE a = b

\* The frame of the pass: before and after differ at most in the guild_id of the
\* member object and of the entries of data.resolved.roles and channels.
Frame(before, after) ==
    /\ SameOutside(before, after, {K("member"), K("data")})
    /\ ContainsKey(before, K("member")) => SameButGuildId(before[K("member")], after[K("member")])
    /\ ContainsKey(before, K("data")) => SameData(before[K("data")], after[K("data")])

\* C16: the normalization pass changes only the guild_id of the member object
\* and of the entries of data.resolved.roles and data.resolved.channels; with a
\* guild id these objects end with the top-level one, whatever guild_id they
\* had; a second application of the pass changes nothing.
C16_FrameAndIdempotence ==
    [][ (pc = "normalize" /\ pc' = "id") =>
          /\ Frame(map, map')
          /\ GuildIsIdString(payload) => AllScoped(map', payload.m[K("guild_id")])
          /\ ~NormalizationPanics(map')
          /\ NormalizationPass(map') = map' ]_vars

\* A payload with a user, options, users and members, and with another guild_id
\* on its member and on a role, has been normalized: the member and the role
\* now carry the top-level guild id.
C16_Witness ==
    /\ pc = "id"
    /\ payload \in PayloadsFrame
    /\ GuildIsIdString(payload)
    /\ payload.m[K("member")].m[K("guild_id")] = OtherGuild
    /\ map[K("member")].m[K("guild_id")] = JNum(ParseU64(payload.m[K("guild_id")].s)[1])
    /\ IsSome(EntriesOf(payload.m, K("roles")))
    /\ EntriesOf(payload.m, K("roles"))[1][K("1")].m[K("guild_id")] = OtherGuild
    /\ EntriesOf(map, K("roles"))[1][K("1")].m[K("guild_id")] = payload.m[K("guild_id")]
    /\ map[K("user")] = payload.m[K("user")]

====
